---- MODULE Spec2Model ----
(***************************************************************************)
(* A model of rusty_studio: Track (src/timeline/track.rs) and Timeline     *)
(* (src/timeline/timeline.rs) over Items that carry a start and a duration *)
(* in milliseconds (src/timeline/item.rs, src/core/time.rs); an Item's     *)
(* time range, content and metadata (src/core/timerange_trait.rs,          *)
(* src/core/data_box.rs); TimeRange (src/timeline/timerange.rs); and the   *)
(* division and the timecode / timestamp text of Time                      *)
(* (src/core/timecode_parts.rs, src/core/timebase.rs); and SrtReader       *)
(* (src/subtitle/srt_loader.rs).                                           *)
(*                                                                         *)
(* Indices are the code's: 0-based.  A Vec is a sequence, so the element   *)
(* at the code's index i is s[i + 1].                                      *)
(***************************************************************************)
EXTENDS Integers, Sequences, FiniteSets, TLC

VARIABLES
    track,      \* a Track value owned by the caller: [items, end_cache]
    tracks,     \* Timeline.tracks: the Timeline's Vec<Box<Track>>
    last,       \* the last call made and what it returned
    panicked,   \* TRUE once a call has panicked (the thread unwinds)
    segment,    \* an Item owned by the caller:
                \* [start, duration, metadata, content]
    reader      \* an SrtReader owned by the caller, its source and, while
                \* next() runs, the local variables of next()

vars == <<track, tracks, last, panicked, segment, reader>>

----------------------------------------------------------------------------
(* Bounds of the model. *)

\* The most items the caller's Track is grown to.
MaxLen == 3
\* The most tracks the Timeline is grown to.
MaxTracks == 3
\* The most items held by all tracks of the Timeline together.
MaxTimelineItems == 3

----------------------------------------------------------------------------
(* Time and items. *)

\* Item::new(start, duration, _): the time range of an Item.
Item(s, d) == [start |-> s, duration |-> d]

\* The items the calls are made with: the segments of the documented
\* scenarios, a zero-length one that touches its neighbours, one of
\* negative duration (Time is signed), and a long one that starts with
\* (0,10) and ends after the items that start later.
Items ==
    { Item(0, 10), Item(5, 10), Item(20, 10), Item(30, 10), Item(35, 10),
      Item(50, 100), Item(10, 0), Item(40, -20), Item(0, 100) }

\* The items the calls are made with where every call of Track is made:
\* two that start together, one of them long; two that touch; one of
\* negative duration; one that starts after the others end.
TrackItems ==
    { Item(0, 10), Item(0, 100), Item(20, 10), Item(30, 10), Item(40, -20),
      Item(50, 100) }

\* The items that do not end before they start.
ForwardItems == { it \in Items : it.duration >= 0 }

\* The most a start or a duration differs from 0 where the span tests are
\* made on every span.
SpanBound == 2

\* The most ranges whole_timerange is given.
MaxRanges == 3

\* The largest magnitude of a number a Time is divided by.
MaxDivisor == 2

\* The spans and the time points the span tests are made with.
Times == (-SpanBound)..SpanBound
Spans == { Item(s, d) : s \in Times, d \in Times }

\* TimeRangeSupport::end
End(it) == it.start + it.duration

\* TimeRangeSupport::contains
Contains_HalfOpen(a, time) == a.start <= time /\ time < End(a)
Contains(a, time) == a.start <= time /\ time <= End(a)

\* TimeRangeSupport::overlaps
Overlaps_Exclusive(a, b) == a.start < End(b) /\ End(a) > b.start
Overlaps(a, b) == a.start <= End(b) /\ End(a) >= b.start

\* Option<Time>
None == [some |-> FALSE, val |-> 0]
Some(x) == [some |-> TRUE, val |-> x]

----------------------------------------------------------------------------
(* Vec operations used by the code. *)

\* Vec::insert(i, x), 0 <= i <= len
VecInsert(s, i, x) == SubSeq(s, 1, i) \o <<x>> \o SubSeq(s, i + 1, Len(s))

\* Vec::remove(i), 0 <= i < len: the vector without its element i
VecRemove(s, i) == SubSeq(s, 1, i) \o SubSeq(s, i + 2, Len(s))

\* The items are in ascending order of start.
SortedByStart(s) == \A i \in 1..(Len(s) - 1) : s[i].start <= s[i + 1].start

\* slice::binary_search_by(|x| x.start().cmp(&start)): on a slice sorted by
\* start, Ok(i) for any i whose element compares Equal (the library leaves
\* open which one), else Err(i) for the partition point; the caller takes i
\* in both cases.  On a slice that is not sorted the library promises no
\* particular index, only one in 0..=len.
BinarySearchByStart(s, start) ==
    IF ~SortedByStart(s) THEN 0..Len(s)
    ELSE IF \E i \in 1..Len(s) : s[i].start = start
         THEN { i - 1 : i \in { j \in 1..Len(s) : s[j].start = start } }
         ELSE { Cardinality({ j \in 1..Len(s) : s[j].start < start }) }

\* slice::sort_by(|a, b| a.start().cmp(&b.start())): a stable sort, here by
\* insertion of each element behind the elements that do not start later.
RECURSIVE SortByStart(_)
RECURSIVE SortByStart_Unstable(_)
SortByStart_Unstable(s) ==
    IF Len(s) <= 1 THEN s
    ELSE LET init == SortByStart_Unstable(SubSeq(s, 1, Len(s) - 1))
             x == s[Len(s)]
             k == Cardinality({ j \in 1..Len(init) : init[j].start < x.start })
         IN  VecInsert(init, k, x)
SortByStart(s) ==
    IF Len(s) <= 1 THEN s
    ELSE LET init == SortByStart(SubSeq(s, 1, Len(s) - 1))
             x == s[Len(s)]
             k == Cardinality({ j \in 1..Len(init) : init[j].start <= x.start })
         IN  VecInsert(init, k, x)

----------------------------------------------------------------------------
(* Track *)

\* Track::default
TrackDefault == [items |-> <<>>, end_cache |-> None]

\* Track::update_end_cache
UpdateEndCache_Overwrite(t, item) ==
    IF t.end_cache.some
    THEN [t EXCEPT !.end_cache = Some(End(item))]
    ELSE t
UpdateEndCache(t, item) ==
    IF t.end_cache.some /\ t.end_cache.val < End(item)
    THEN [t EXCEPT !.end_cache = Some(End(item))]
    ELSE t

\* Track::force_push_item
ForcePushItem(t, item) ==
    LET u == UpdateEndCache(t, item)
    IN  [u EXCEPT !.items = Append(@, item)]

\* Track::force_insert_item: the track afterwards and the Result
ForceInsertItem_ErrAtLen(t, index, item) ==
    LET insert_point == IF index >= Len(t.items) THEN Len(t.items) ELSE index
        u == UpdateEndCache(t, item)
    IN  [track |-> [u EXCEPT !.items = VecInsert(@, insert_point, item)],
         ok |-> (index < Len(t.items)),
         ret |-> insert_point]
ForceInsertItem(t, index, item) ==
    LET insert_point ==
            IF t.items = <<>> THEN 0
            ELSE IF index >= Len(t.items) THEN Len(t.items)
            ELSE index
        u == UpdateEndCache(t, item)
    IN  [track |-> [u EXCEPT !.items = VecInsert(@, insert_point, item)],
         ok |-> (insert_point = index),
         ret |-> insert_point]

\* Track::force_sort_items
ForceSortItems(t) ==
    LET sorted == SortByStart(t.items)
        new_end == IF sorted = <<>> THEN None ELSE Some(End(sorted[Len(sorted)]))
    IN  [items |-> sorted, end_cache |-> new_end]

\* Track::find_insert_point: the indices it can return
FindInsertPoint_AlwaysAppend(t, item) == { Len(t.items) }
FindInsertPoint_AlwaysFront(t, item) == {0}
FindInsertPoint_ComparesEnd(t, item) ==
    IF t.items = <<>> THEN {0}
    ELSE IF t.end_cache.some /\ t.end_cache.val < End(item) THEN { Len(t.items) }
    ELSE BinarySearchByStart(t.items, item.start)
FindInsertPoint(t, item) ==
    IF t.items = <<>> THEN {0}
    ELSE IF t.end_cache.some /\ t.end_cache.val < item.start THEN { Len(t.items) }
    ELSE BinarySearchByStart(t.items, item.start)

\* Track::check_insert_point
CheckInsertPoint_NoSuccessor(t, index, item) ==
    IF index >= Len(t.items) THEN TRUE
    ELSE IF index = 0 THEN End(item) <= t.items[1].start
    ELSE \A i \in (index - 1)..index :
            (i < Len(t.items)) => ~Overlaps(t.items[i + 1], item)
CheckInsertPoint(t, index, item) ==
    IF index >= Len(t.items) THEN TRUE
    ELSE IF index = 0 THEN End(item) <= t.items[1].start
    ELSE \A i \in (index - 1)..(index + 1) :
            (i < Len(t.items)) => ~Overlaps(t.items[i + 1], item)

\* Track::force_add_item, with insert_point what find_insert_point returned
ForceAddItem(t, item, insert_point) ==
    [track |-> [t EXCEPT !.items = VecInsert(@, insert_point, item)],
     ret |-> insert_point]

\* Track::try_add_item, with insert_point what find_insert_point returned
TryAddItem_InsertsBeforeCheck(t, item, insert_point) ==
    [track |-> UpdateEndCache(
                   [t EXCEPT !.items = VecInsert(@, insert_point, item)], item),
     ok |-> CheckInsertPoint(t, insert_point, item), ret |-> insert_point]
TryAddItem(t, item, insert_point) ==
    IF CheckInsertPoint(t, insert_point, item)
    THEN [track |-> UpdateEndCache(
                        [t EXCEPT !.items = VecInsert(@, insert_point, item)], item),
          ok |-> TRUE, ret |-> insert_point]
    ELSE [track |-> t, ok |-> FALSE, ret |-> insert_point]

\* Track::take_at: Vec::remove panics when index >= len, after the cache
\* has been reset
TakeAt(t, index) ==
    IF index >= Len(t.items)
    THEN [track |-> [t EXCEPT !.end_cache = None], panic |-> TRUE,
          item |-> Item(0, 0)]
    ELSE [track |-> [t EXCEPT !.items = VecRemove(@, index)], panic |-> FALSE,
          item |-> t.items[index + 1]]

\* Track::get: Some(item) or None
Get(t, index) ==
    IF index < Len(t.items)
    THEN [some |-> TRUE, item |-> t.items[index + 1]]
    ELSE [some |-> FALSE, item |-> Item(0, 0)]

\* The loop of Track::duration: the largest end, starting from Time::default()
RECURSIVE ScanEnd(_, _)
ScanEnd(s, new_end) ==
    IF s = <<>> THEN new_end
    ELSE ScanEnd(Tail(s), IF End(Head(s)) > new_end THEN End(Head(s)) ELSE new_end)

\* <Track as TimeRangeSupport>::duration: the track afterwards (the cache is
\* filled through the RefCell) and the value returned
Duration(t) ==
    LET u == IF ~t.end_cache.some
             THEN [t EXCEPT !.end_cache = Some(ScanEnd(t.items, 0))]
             ELSE t
    IN  [track |-> u, ret |-> u.end_cache.val]

----------------------------------------------------------------------------
(* Timeline *)

\* Timeline::default: the tracks of a new Timeline
TimelineDefault == <<TrackDefault>>

\* Timeline::tracks_count
TracksCount(ts) == Len(ts)

\* Timeline::clear
Clear(ts) == <<TrackDefault>>

\* Timeline::push_track: `last.is_none() && last.unwrap().is_empty()` is false
\* when there is a last track, and unwraps a None (a panic) when there is not
PushTrack(ts, t) ==
    IF ts = <<>>
    THEN [tracks |-> ts, panic |-> TRUE]
    ELSE [tracks |-> Append(ts, t), panic |-> FALSE]

\* Timeline::take_track: the tracks afterwards and the Option returned
TakeTrack_SwapRemove(ts, index) ==
    IF index >= Len(ts)
    THEN [tracks |-> ts, some |-> FALSE, track |-> TrackDefault]
    ELSE LET rest == SubSeq([ts EXCEPT ![index + 1] = ts[Len(ts)]], 1, Len(ts) - 1)
         IN  [tracks |-> IF rest = <<>> THEN <<TrackDefault>> ELSE rest,
              some |-> TRUE, track |-> ts[index + 1]]
TakeTrack_NoRefill(ts, index) ==
    IF index >= Len(ts)
    THEN [tracks |-> ts, some |-> FALSE, track |-> TrackDefault]
    ELSE [tracks |-> VecRemove(ts, index), some |-> TRUE, track |-> ts[index + 1]]
TakeTrack_ClampsIndex(ts, index) ==
    LET i == IF index >= Len(ts) THEN Len(ts) - 1 ELSE index
        rest == VecRemove(ts, i)
    IN  [tracks |-> IF rest = <<>> THEN <<TrackDefault>> ELSE rest,
         some |-> TRUE, track |-> ts[i + 1]]
TakeTrack(ts, index) ==
    IF index >= Len(ts)
    THEN [tracks |-> ts, some |-> FALSE, track |-> TrackDefault]
    ELSE LET rest == VecRemove(ts, index)
         IN  [tracks |-> IF rest = <<>> THEN <<TrackDefault>> ELSE rest,
              some |-> TRUE, track |-> ts[index + 1]]

\* Timeline::get_track: Some(track) or None
GetTrack(ts, index) ==
    IF index < Len(ts)
    THEN [some |-> TRUE, track |-> ts[index + 1]]
    ELSE [some |-> FALSE, track |-> TrackDefault]

\* What Track::try_add_item can do on t: one outcome for each index that
\* find_insert_point can return
TryAddItemOutcomes(t, item) ==
    { TryAddItem(t, item, ip) : ip \in FindInsertPoint(t, item) }

\* The loop of Timeline::add_item from track i (0-based) on, and the new
\* track when the loop ends with nothing inserted: the tracks afterwards
RECURSIVE AddItemFrom(_, _, _)
AddItemFrom(ts, item, i) ==
    IF i >= Len(ts)
    THEN { Append(ts, ForcePushItem(TrackDefault, item)) }
    ELSE UNION { IF r.ok
                 THEN { [ts EXCEPT ![i + 1] = r.track] }
                 ELSE AddItemFrom(ts, item, i + 1)
                 : r \in TryAddItemOutcomes(ts[i + 1], item) }

\* Timeline::add_item: the tracks it can leave
AddItem_AlwaysNewTrack(ts, item) ==
    { Append(ts, ForcePushItem(TrackDefault, item)) }
AddItem_NoBreak(ts, item) ==
    LET offered == [i \in 1..Len(ts) |->
                      CHOOSE r \in TryAddItemOutcomes(ts[i], item) : TRUE]
        after == [i \in 1..Len(ts) |-> offered[i].track]
    IN  IF \E i \in 1..Len(ts) : offered[i].ok
        THEN { after }
        ELSE { Append(after, ForcePushItem(TrackDefault, item)) }
AddItem(ts, item) == AddItemFrom(ts, item, 0)

\* <Track as Clone>::clone: the items are cloned, the end-cache is unknown
TrackClone(t) == [items |-> t.items, end_cache |-> None]

\* The loop of Timeline::clone from track i (0-based) on: each track of ts
\* is cloned and pushed on res
RECURSIVE CloneFrom(_, _, _)
CloneFrom(res, ts, i) ==
    IF i >= Len(ts) THEN res
    ELSE CloneFrom(Append(res, TrackClone(ts[i + 1])), ts, i + 1)

\* <Timeline as Clone>::clone: the tracks of the clone
TimelineClone(ts) == CloneFrom(TimelineDefault, ts, 0)

\* The number of items in all tracks
RECURSIVE ItemsCount(_)
ItemsCount(ts) ==
    IF ts = <<>> THEN 0 ELSE Len(Head(ts).items) + ItemsCount(Tail(ts))

\* The tracks a caller hands to push_track: a new one, one with an item
\* pushed, one with two overlapping items pushed, one whose duration() has
\* been read
PushableTracks ==
    {TrackDefault}
    \cup { ForcePushItem(TrackDefault, it) : it \in {Item(0, 10), Item(50, 100)} }
    \cup { ForcePushItem(ForcePushItem(TrackDefault, Item(5, 10)), Item(0, 10)) }
    \cup { Duration(ForcePushItem(TrackDefault, Item(20, 10))).track }

----------------------------------------------------------------------------
(* TimeRange::whole_timerange and the division of a Time. *)

\* The loop of TimeRange::whole_timerange from the range at index i on,
\* with the start and the end found so far.
RECURSIVE WholeFrom(_, _, _, _)
WholeFrom(ranges, i, start, end) ==
    IF i >= Len(ranges) THEN [start |-> start, end |-> end]
    ELSE LET r == ranges[i + 1]
             s == IF ~start.some \/ start.val > r.start
                  THEN Some(r.start) ELSE start
             e == IF ~end.some \/ end.val < End(r)
                  THEN Some(End(r)) ELSE end
         IN  WholeFrom(ranges, i + 1, s, e)

\* TimeRange::whole_timerange: the range, or a panic where the code unwraps
\* a None.
WholeTimerange_FirstStart(ranges) ==
    IF ranges = <<>> THEN [panic |-> TRUE, range |-> Item(0, 0)]
    ELSE [panic |-> FALSE,
          range |-> Item(ranges[1].start,
                         WholeFrom(ranges, 0, None, None).end.val
                           - ranges[1].start)]
WholeTimerange(ranges) ==
    LET w == WholeFrom(ranges, 0, None, None)
    IN  IF ~w.start.some \/ ~w.end.some
        THEN [panic |-> TRUE, range |-> Item(0, 0)]
        ELSE [panic |-> FALSE,
              range |-> Item(w.start.val, w.end.val - w.start.val)]

\* The lists of at most n of the items.
ListsOf(S, n) == UNION { [1..k -> S] : k \in 0..n }

\* An f64: a sign and a whole magnitude; [neg |-> TRUE, mag |-> 0] is -0.0.
F64(neg, mag) == [neg |-> neg, mag |-> mag]
Divisors == { F64(neg, mag) : neg \in BOOLEAN, mag \in 0..MaxDivisor }

\* What `as i128` makes of a finite whole f64 in range (sat = 0), of
\* +infinity (sat = 1: i128::MAX), of -infinity (sat = -1: i128::MIN) and of
\* NaN (0).
Finite(val) == [val |-> val, sat |-> 0]
Saturated(sign) == [val |-> 0, sat |-> sign]

\* f64::round of the f64 quotient n / d for n >= 0, d > 0: the nearest whole
\* number, a tie going away from zero (a tie is a quotient the division
\* gives exactly).
RoundDiv(n, d) ==
    LET q == n \div d
        r == n % d
    IN  IF 2 * r < d THEN q ELSE q + 1

Abs(n) == IF n < 0 THEN -n ELSE n

\* impl Div<f64> for Time: (data as f64 / other).round() as i128.  The
\* result is a Time in every case.
TimeDiv(data, other) ==
    IF other.mag = 0
    THEN IF data = 0 THEN Finite(0)
         ELSE Saturated(IF (data < 0) # other.neg THEN -1 ELSE 1)
    ELSE LET m == RoundDiv(Abs(data), other.mag)
         IN  Finite(IF (data < 0) # other.neg THEN -m ELSE m)

----------------------------------------------------------------------------
(* Time as text: TimecodeParts, Timebase and the conversions of Time. *)
(* A text is the sequence of its characters.                          *)

\* u8::MAX, the largest fps of a Timebase.
MaxFps == 255

\* The characters '0'..'9' in order.
DigitChars == <<"0", "1", "2", "3", "4", "5", "6", "7", "8", "9">>
AsciiDigits == { DigitChars[i] : i \in 1..10 }
DigitValue(c) == CHOOSE v \in 0..9 : DigitChars[v + 1] = c

\* A decimal digit that is not ASCII (ARABIC-INDIC DIGIT THREE), as one
\* character: the regex crate's \d matches it, str::parse does not read it.
UnicodeDigits == {"U+0663"}

\* \d
RegexDigit == AsciiDigits \cup UnicodeDigits

\* The regular expressions of from_timecode and from_timestamp: the class of
\* characters each position of a match is in.
TimecodeRegex ==
    <<RegexDigit, RegexDigit, {":"}, RegexDigit, RegexDigit, {":"},
      RegexDigit, RegexDigit, {";", ":"}, RegexDigit, RegexDigit>>
TimestampRegex ==
    <<RegexDigit, RegexDigit, {":"}, RegexDigit, RegexDigit, {":"},
      RegexDigit, RegexDigit, {".", ",", ":", ";"},
      RegexDigit, RegexDigit, RegexDigit>>

\* The expression matches the text at the offset p.
MatchAt(tc, re, p) ==
    /\ p + Len(re) <= Len(tc)
    /\ \A i \in 1..Len(re) : tc[p + i] \in re[i]

\* Regex::captures: the offset of the leftmost match, if any.  The
\* expression is not anchored, so a match may start and end inside the text.
Captures(tc, re) ==
    LET ps == { p \in 0..Len(tc) : MatchAt(tc, re, p) }
    IN  IF ps = {} THEN None
        ELSE Some(CHOOSE p \in ps : \A q \in ps : p <= q)

\* The number a sequence of ASCII digits writes.
RECURSIVE DigitsValue(_)
DigitsValue(cs) ==
    IF cs = <<>> THEN 0
    ELSE 10 * DigitsValue(SubSeq(cs, 1, Len(cs) - 1)) + DigitValue(cs[Len(cs)])

\* str::parse::<u8>() / ::<u32>() of a capture of two or three characters
\* that \d matched: an error unless every one is an ASCII digit.
Parse(cs) ==
    IF \A i \in 1..Len(cs) : cs[i] \in AsciiDigits
    THEN [ok |-> TRUE, val |-> DigitsValue(cs)]
    ELSE [ok |-> FALSE, val |-> 0]

\* Result<TimecodeParts, TimecodeFormatError>
PartsErr == [ok |-> FALSE, hh |-> 0, mm |-> 0, ss |-> 0, ff |-> 0,
             drop_frame |-> FALSE]
Parts(hh, mm, ss, ff, drop_frame) ==
    [ok |-> TRUE, hh |-> hh, mm |-> mm, ss |-> ss, ff |-> ff,
     drop_frame |-> drop_frame]

\* TimecodeParts::from_timecode
PartsFromTimecode(tc) ==
    LET m == Captures(tc, TimecodeRegex)
        p == m.val
        hours == Parse(SubSeq(tc, p + 1, p + 2))
        minutes == Parse(SubSeq(tc, p + 4, p + 5))
        seconds == Parse(SubSeq(tc, p + 7, p + 8))
        frames == Parse(SubSeq(tc, p + 10, p + 11))
    IN  IF ~m.some THEN PartsErr
        ELSE IF ~(hours.ok /\ minutes.ok /\ seconds.ok /\ frames.ok)
        THEN PartsErr
        ELSE Parts(hours.val, minutes.val, seconds.val, frames.val,
                   tc[p + 9] = ";")

\* TimecodeParts::from_timestamp
PartsFromTimestamp(tc) ==
    LET m == Captures(tc, TimestampRegex)
        p == m.val
        hours == Parse(SubSeq(tc, p + 1, p + 2))
        minutes == Parse(SubSeq(tc, p + 4, p + 5))
        seconds == Parse(SubSeq(tc, p + 7, p + 8))
        frames == Parse(SubSeq(tc, p + 10, p + 12))
    IN  IF ~m.some THEN PartsErr
        ELSE IF ~(hours.ok /\ minutes.ok /\ seconds.ok /\ frames.ok)
        THEN PartsErr
        ELSE Parts(hours.val, minutes.val, seconds.val, frames.val, FALSE)

\* The decimal digits of n >= 0.
RECURSIVE ToDigits(_)
ToDigits(n) ==
    IF n < 10 THEN <<DigitChars[n + 1]>>
    ELSE Append(ToDigits(n \div 10), DigitChars[(n % 10) + 1])

\* format!("{:0w}", n): at least w digits, zeros in front.
Pad(n, w) ==
    LET d == ToDigits(n)
    IN  [i \in 1..(IF Len(d) >= w THEN 0 ELSE w - Len(d)) |-> "0"] \o d

\* TimecodeParts::to_timecode
PartsToTimecode(parts) ==
    Pad(parts.hh, 2) \o <<":">> \o Pad(parts.mm, 2) \o <<":">>
      \o Pad(parts.ss, 2) \o <<IF parts.drop_frame THEN ";" ELSE ":">>
      \o Pad(parts.ff, 2)

\* TimecodeParts::to_timestamp
PartsToTimestamp(parts) ==
    Pad(parts.hh, 2) \o <<":">> \o Pad(parts.mm, 2) \o <<":">>
      \o Pad(parts.ss, 2) \o <<".">> \o Pad(parts.ff, 3)

\* struct Timebase
Timebase(fps, drop_frame) == [fps |-> fps, drop_frame |-> drop_frame]

\* f64::round of a value n / d (n >= 0, d > 0) that the code computes with
\* two f64 operations: the nearest whole number; where n / d is a tie, the
\* rounding of the first operation decides which side the value falls on.
RoundF64_Floor(n, d) == { n \div d }
RoundF64(n, d) ==
    LET q == n \div d
        r == n % d
    IN  IF 2 * r < d THEN {q}
        ELSE IF 2 * r > d THEN {q + 1}
        ELSE {q, q + 1}

\* Timebase::milliseconds_from_frames: ((frames / fps) * 1000.0).round()
MillisecondsFromFrames(tb, frames) == RoundF64(frames * 1000, tb.fps)

\* Timebase::frames_from_milliseconds: ((ms / 1000.0) * fps).round()
FramesFromMilliseconds(tb, ms) == RoundF64(ms * tb.fps, 1000)

\* Result<Time, TimecodeFormatError>
TimeErr == [ok |-> FALSE, data |-> 0]
TimeOk(data) == [ok |-> TRUE, data |-> data]

\* Time::from_timecode: the results it can return
TimeFromTimecode(tc, tb) ==
    LET parts == PartsFromTimecode(tc)
    IN  IF ~parts.ok THEN { TimeErr }
        ELSE { TimeOk(parts.hh * 60 * 60 * 1000 + parts.mm * 60 * 1000
                        + parts.ss * 1000 + ms) :
                 ms \in MillisecondsFromFrames(tb, parts.ff) }

\* Time::to_timecode of a Time that is not negative: the texts it can return
TimeToTimecode(data, tb) ==
    LET ms == data % 1000
        seconds == data \div 1000
        ss == seconds % 60
        minutes == seconds \div 60
        mm == minutes % 60
        hours == minutes \div 60
        hh == hours % 24
    IN  { PartsToTimecode(Parts(hh, mm, ss, ff, tb.drop_frame)) :
            ff \in FramesFromMilliseconds(tb, ms) }

\* Time::from_timestamp
TimeFromTimestamp(tc) ==
    LET parts == PartsFromTimestamp(tc)
    IN  IF ~parts.ok THEN TimeErr
        ELSE TimeOk(parts.hh * 60 * 60 * 1000 + parts.mm * 60 * 1000
                      + parts.ss * 1000 + parts.ff)

\* Time::to_timestamp of a Time that is not negative
TimeToTimestamp(data) ==
    LET ff == data % 1000
        seconds == data \div 1000
        ss == seconds % 60
        minutes == seconds \div 60
        mm == minutes % 60
        hours == minutes \div 60
        hh == hours % 24
    IN  PartsToTimestamp(Parts(hh, mm, ss, ff, FALSE))

\* The texts and timebases the conversions are called with.

\* hh:mm:ss<sep>ff and hh:mm:ss<sep>mmm as texts.
TimecodeText(hh, mm, ss, sep, ff) ==
    Pad(hh, 2) \o <<":">> \o Pad(mm, 2) \o <<":">> \o Pad(ss, 2)
      \o <<sep>> \o Pad(ff, 2)
TimestampText(hh, mm, ss, sep, ms) ==
    Pad(hh, 2) \o <<":">> \o Pad(mm, 2) \o <<":">> \o Pad(ss, 2)
      \o <<sep>> \o Pad(ms, 3)

\* Every timebase of fps >= 1.
Timebases == { Timebase(fps, df) : fps \in 1..MaxFps, df \in BOOLEAN }

\* The characters a text is spoilt with.
SpoilChars == {"0", "9", ":", ";", ".", ",", " ", "x", "U+0663"}

\* A text with a character put in front of it, put behind it, put in the
\* place of one of its characters, or with one of its characters left out.
Spoilt(tc) ==
    { <<c>> \o tc : c \in SpoilChars }
    \cup { tc \o <<c>> : c \in SpoilChars }
    \cup { [tc EXCEPT ![i] = c] : i \in 1..Len(tc), c \in SpoilChars }
    \cup { SubSeq(tc, 1, i - 1) \o SubSeq(tc, i + 1, Len(tc)) : i \in 1..Len(tc) }

\* from_timecode is called with: the last timecode of a day and every frame
\* number, in every timebase, with the separator of the timebase; the
\* timecodes of the documented examples, with either separator; and the
\* spoilt forms of one of them and a text that is no timecode.
TimecodeInputs ==
    { <<TimecodeText(23, 59, 59, IF tb.drop_frame THEN ";" ELSE ":", ff), tb>> :
        tb \in Timebases, ff \in 0..99 }
    \cup { <<TimecodeText(hms[1], hms[2], hms[3], sep, ff), Timebase(fps, df)>> :
             hms \in {<<0, 0, 5>>, <<1, 2, 3>>, <<0, 0, 10>>},
             sep \in {":", ";"}, ff \in {0, 15, 30}, fps \in {24, 30, 60},
             df \in BOOLEAN }
    \cup { <<tc, Timebase(30, FALSE)>> :
             tc \in Spoilt(TimecodeText(0, 0, 5, ":", 15))
                      \cup {<<"w", "r", "o", "n", "g">>, <<>>} }

\* from_timestamp is called with: timestamps with each of the separators the
\* code reads, and the spoilt forms of one of them and a text that is no
\* timestamp.
TimestampInputs ==
    { TimestampText(hms[1], hms[2], hms[3], sep, ms) :
        hms \in {<<0, 0, 5>>, <<12, 34, 56>>, <<23, 59, 59>>, <<0, 0, 10>>},
        sep \in {".", ",", ":", ";"}, ms \in {0, 5, 150, 300, 789, 999} }
    \cup Spoilt(TimestampText(0, 0, 5, ".", 150))
    \cup {<<"w", "r", "o", "n", "g">>, <<>>}

----------------------------------------------------------------------------
(* Item: its time range, its content and its metadata. *)

\* The largest number stored as a content or as a metadata value.
MaxVal == 3

\* The types the content and the metadata values are stored and read as.
Types == {"i32", "f64", "String"}

\* The keys the metadata is stored under.
Keys == {"number1", "note"}

\* Rc<dyn Any> / Arc<dyn Any>: a value together with its concrete type.
Typed(type, val) == [some |-> TRUE, type |-> type, val |-> val]
TypedValues == { Typed(t, v) : t \in Types, v \in 1..MaxVal }

\* Option<_>::None for a content, a metadata entry or a typed read.
Absent == [some |-> FALSE, type |-> "", val |-> 0]

\* <dyn Any>::downcast_ref::<T>().cloned() on a stored value, if any.
Downcast_AnyType(stored, type) == stored
Downcast(stored, type) ==
    IF stored.some /\ stored.type = type THEN stored ELSE Absent

\* DataBox::default
DataBoxDefault == [k \in Keys |-> Absent]

\* DataBox::get::<T>
DataBoxGet(box, key, type) == Downcast(box[key], type)

\* DataBox::set::<T>
DataBoxSet_KeepFirst(box, key, value) ==
    IF box[key].some THEN box ELSE [box EXCEPT ![key] = value]
DataBoxSet(box, key, value) == [box EXCEPT ![key] = value]

\* DataBox::erase
DataBoxErase(box, key) == [box EXCEPT ![key] = Absent]

\* DataBox::clear
DataBoxClear(box) == [k \in Keys |-> Absent]

\* Item::default
ItemDefault ==
    [start |-> 0, duration |-> 0, metadata |-> DataBoxDefault,
     content |-> Absent]

\* TimeRangeEditingSupport::set_start for Item
SetStart(it, start) == [it EXCEPT !.start = start]

\* TimeRangeEditingSupport::set_duration for Item
SetDuration(it, duration) == [it EXCEPT !.duration = duration]

\* TimeRangeEditingSupport::set_end
SetEnd_MovesStart(it, end) == SetStart(it, end - it.duration)
SetEnd(it, end) == SetDuration(it, end - it.start)

\* TimeRangeEditingSupport::shift_time
ShiftTime(it, shift) == SetStart(it, it.start + shift)

\* Item::get_content::<T>
GetContent(it, type) == Downcast(it.content, type)

\* Item::set_content::<T>
SetContent(it, value) == [it EXCEPT !.content = value]

\* Item::clear_content
ClearContent(it) == [it EXCEPT !.content = Absent]

\* MetadataSupport::get_metadata for Item
GetMetadata(it, key, type) == DataBoxGet(it.metadata, key, type)

\* MetadataSupport::set_metadata for Item
SetMetadata(it, key, value) ==
    [it EXCEPT !.metadata = DataBoxSet(it.metadata, key, value)]

\* MetadataSupport::erase_metadata for Item
EraseMetadata(it, key) ==
    [it EXCEPT !.metadata = DataBoxErase(it.metadata, key)]

\* MetadataSupport::clear_metadata for Item
ClearMetadata(it) == [it EXCEPT !.metadata = DataBoxClear(it.metadata)]

----------------------------------------------------------------------------
(* SrtReader (src/subtitle/srt_loader.rs) *)

\* The most blocks of an input.
MaxBlocks == 2

\* sequence_number_pat, ^(\d+)$: the whole text is one or more digits ($ is
\* the end of the text: the expression is not in multi-line mode).
SequenceNumberPat(text) ==
    /\ text # <<>>
    /\ \A i \in 1..Len(text) : text[i] \in RegexDigit

\* time_range_pat, ^(\d\d:\d\d:\d\d[:;.,]\d\d\d) --> (the same): the class
\* of characters each position of a match is in; it is anchored at the
\* start of the text only.
TimeRangeTime ==
    <<RegexDigit, RegexDigit, {":"}, RegexDigit, RegexDigit, {":"},
      RegexDigit, RegexDigit, {":", ";", ".", ","},
      RegexDigit, RegexDigit, RegexDigit>>
TimeRangeRegex ==
    TimeRangeTime \o <<{" "}, {"-"}, {"-"}, {">"}, {" "}>> \o TimeRangeTime
TimeRangePat(text) == MatchAt(text, TimeRangeRegex, 0)

\* BufRead::read_line: what it appends to its buffer, the characters of the
\* source from the position pos up to and including the next newline, or up
\* to the end of the source; nothing at the end of the source (Ok(0)).
ReadLine(source, pos) ==
    LET ends == { e \in (pos + 1)..Len(source) : source[e] = "\n" }
        e == IF ends = {} THEN Len(source)
             ELSE CHOOSE x \in ends : \A y \in ends : x <= y
    IN  [line |-> SubSeq(source, pos + 1, e), n |-> e - pos]

\* [String]::join("\n")
RECURSIVE Join(_)
Join(lines) ==
    IF lines = <<>> THEN <<>>
    ELSE IF Len(lines) = 1 THEN lines[1]
    ELSE lines[1] \o <<"\n">> \o Join(Tail(lines))

\* Option<StaticSubtitle>.  time_range is never assigned after
\* TimeRange::from_millisecond(0, 0).
NoSubtitle == [some |-> FALSE, start |-> 0, duration |-> 0, content |-> <<>>]
SomeSubtitle(content) ==
    [some |-> TRUE, start |-> 0, duration |-> 0, content |-> content]

\* No SrtReader has been made yet.
NoReader ==
    [pc |-> "none", source |-> <<>>, pos |-> 0, state |-> "SequenceNumber",
     line |-> <<>>, contents |-> <<>>, ret |-> NoSubtitle, yielded |-> 0]

\* SubtitleLoader::new for SrtReader, on a source that has not been read.
SrtReaderNew(source) == [NoReader EXCEPT !.pc = "idle", !.source = source]

\* The start of SrtReader::next: its local variables.
SrtNextEnter(r) ==
    [r EXCEPT !.pc = "loop", !.state = "SequenceNumber", !.line = <<>>,
              !.contents = <<>>, !.ret = NoSubtitle]

\* One turn of the loop of SrtReader::next: a read_line into `line`, which
\* is never emptied, and the match on the parse state; a return leaves the
\* loop.
SrtNextLoop(r) ==
    LET read == ReadLine(r.source, r.pos)
        line == r.line \o read.line
        s == [r EXCEPT !.pos = r.pos + read.n, !.line = line]
    IN  IF read.n = 0
        THEN [r EXCEPT !.pc = "returned", !.ret = NoSubtitle]
        ELSE CASE r.state = "SequenceNumber" ->
                    IF SequenceNumberPat(line)
                    THEN [s EXCEPT !.state = "TimeRange"] ELSE s
               [] r.state = "TimeRange" ->
                    IF TimeRangePat(line)
                    THEN [s EXCEPT !.state = "Content"] ELSE s
               [] r.state = "Content" ->
                    IF line = <<>>
                    THEN [s EXCEPT !.state = "Done"]
                    ELSE [s EXCEPT !.contents = Append(@, line)]
               [] r.state = "Done" ->
                    [s EXCEPT !.pc = "returned",
                              !.ret = SomeSubtitle(Join(r.contents)),
                              !.yielded = @ + 1]

\* The text of an SRT block: a sequence-number line, a time-range line,
\* content lines and a blank line.
TimeRangeLine ==
    TimestampText(0, 0, 1, ",", 0) \o <<" ", "-", "-", ">", " ">>
      \o TimestampText(0, 0, 2, ",", 500)
RECURSIVE Lines(_)
Lines(ls) ==
    IF ls = <<>> THEN <<>> ELSE Head(ls) \o <<"\n">> \o Lines(Tail(ls))
Block(n, contents) ==
    Lines(<<ToDigits(n), TimeRangeLine>> \o contents \o << <<>> >>)

\* The content lines of a block.
BlockContents == { << <<"h", "i">> >>, << <<"h", "i">>, <<"y", "o", "u">> >> }

\* The inputs of k well-formed blocks, numbered from 1.
RECURSIVE BlocksFrom(_)
BlocksFrom(k) ==
    IF k = 0 THEN { <<>> }
    ELSE { s \o Block(k, c) : s \in BlocksFrom(k - 1), c \in BlockContents }
WellFormedSources == UNION { BlocksFrom(k) : k \in 1..MaxBlocks }

\* The inputs an SrtReader is made on: the well-formed ones, those without
\* their last newline, and some that are no SRT text.
SrtSources ==
    WellFormedSources
    \cup { SubSeq(s, 1, Len(s) - 1) : s \in WellFormedSources }
    \cup { <<>>, <<"1">>, <<"1", "\n">>, <<"1", "\n">> \o TimeRangeLine,
           <<"x", "\n", "\n">> }

----------------------------------------------------------------------------
(* The calls on the caller's Track. *)

\* What `last` records of a call: its name, the item and the index it was
\* given or returned, whether it returned Ok / Some, and the number returned.
\* `track` is the Track a Timeline call was given or returned, and for
\* force_sort_items the Track as it was before the call (Track::default()
\* otherwise).
CallT(op, item, index, ok, ret, t) ==
    [op |-> op, item |-> item, index |-> index, ok |-> ok, ret |-> ret,
     track |-> t]

NoItem == Item(0, 0)

Call(op, item, index, ok, ret) == CallT(op, item, index, ok, ret, TrackDefault)

Init ==
    /\ track = TrackDefault
    /\ tracks = TimelineDefault
    /\ last = Call("new", NoItem, 0, TRUE, 0)
    /\ panicked = FALSE
    /\ segment = ItemDefault
    /\ reader = NoReader

TryAddItemCall(S) ==
    /\ ~panicked
    /\ \E item \in S : \E ip \in FindInsertPoint(track, item) :
         LET r == TryAddItem(track, item, ip)
         IN  /\ Len(r.track.items) <= MaxLen
             /\ track' = r.track
             /\ last' = Call("try_add_item", item, 0, r.ok, r.ret)
    /\ UNCHANGED <<reader, segment, tracks, panicked>>

ForceAddItemCall(S) ==
    /\ ~panicked
    /\ Len(track.items) < MaxLen
    /\ \E item \in S : \E ip \in FindInsertPoint(track, item) :
         LET r == ForceAddItem(track, item, ip)
         IN  /\ track' = r.track
             /\ last' = Call("force_add_item", item, 0, TRUE, r.ret)
    /\ UNCHANGED <<reader, segment, tracks, panicked>>

ForcePushItemCall(S) ==
    /\ ~panicked
    /\ Len(track.items) < MaxLen
    /\ \E item \in S :
         /\ track' = ForcePushItem(track, item)
         /\ last' = Call("force_push_item", item, 0, TRUE, 0)
    /\ UNCHANGED <<reader, segment, tracks, panicked>>

ForceInsertItemCall(S) ==
    /\ ~panicked
    /\ Len(track.items) < MaxLen
    /\ \E item \in S : \E index \in 0..(Len(track.items) + 1) :
         LET r == ForceInsertItem(track, index, item)
         IN  /\ track' = r.track
             /\ last' = Call("force_insert_item", item, index, r.ok, r.ret)
    /\ UNCHANGED <<reader, segment, tracks, panicked>>

ForceSortItemsCall ==
    /\ ~panicked
    /\ track' = ForceSortItems(track)
    /\ last' = CallT("force_sort_items", NoItem, 0, TRUE, 0, track)
    /\ UNCHANGED <<reader, segment, tracks, panicked>>

TakeAtCall ==
    /\ ~panicked
    /\ \E index \in 0..(Len(track.items) + 1) :
         LET r == TakeAt(track, index)
         IN  /\ track' = r.track
             /\ panicked' = r.panic
             /\ last' = Call("take_at", r.item, index, ~r.panic, Len(track.items))
    /\ UNCHANGED <<reader, segment, tracks>>

GetCall ==
    /\ ~panicked
    /\ \E index \in 0..(Len(track.items) + 1) :
         LET r == Get(track, index)
         IN  last' = Call("get", r.item, index, r.some, Len(track.items))
    /\ UNCHANGED <<reader, segment, track, tracks, panicked>>

DurationCall ==
    /\ ~panicked
    /\ LET r == Duration(track)
       IN  /\ track' = r.track
           /\ last' = Call("duration", NoItem, 0, TRUE, r.ret)
    /\ UNCHANGED <<reader, segment, tracks, panicked>>

\* A Track that only try_add_item is called on.
SafeNext == TryAddItemCall(Items)
SpecSafeTrack == Init /\ [][SafeNext]_vars

\* A Track that only force_add_item is called on, with items that do not
\* end before they start, and duration() is read of.
ForceAddNext == ForceAddItemCall(ForwardItems) \/ DurationCall
SpecForceAdd == Init /\ [][ForceAddNext]_vars

\* A Track under all of its calls.
TrackNext ==
    \/ TryAddItemCall(TrackItems)
    \/ ForceAddItemCall(TrackItems)
    \/ ForcePushItemCall(TrackItems)
    \/ ForceInsertItemCall(TrackItems)
    \/ ForceSortItemsCall
    \/ TakeAtCall
    \/ GetCall
    \/ DurationCall
SpecTrack == Init /\ [][TrackNext]_vars

----------------------------------------------------------------------------
(* The calls on the Timeline. *)

AddItemCall ==
    /\ ~panicked
    /\ ItemsCount(tracks) < MaxTimelineItems
    /\ \E item \in Items : \E ts \in AddItem(tracks, item) :
         /\ Len(ts) <= MaxTracks
         /\ tracks' = ts
         /\ last' = Call("add_item", item, 0, TRUE, 0)
    /\ UNCHANGED <<reader, segment, track, panicked>>

PushTrackCall ==
    /\ ~panicked
    /\ Len(tracks) < MaxTracks
    /\ \E t \in PushableTracks :
         /\ ItemsCount(tracks) + Len(t.items) <= MaxTimelineItems
         /\ LET r == PushTrack(tracks, t)
            IN  /\ tracks' = r.tracks
                /\ panicked' = r.panic
                /\ last' = CallT("push_track", NoItem, 0, ~r.panic, 0, t)
    /\ UNCHANGED <<reader, segment, track>>

TakeTrackCall ==
    /\ ~panicked
    /\ \E index \in 0..MaxTracks :
         LET r == TakeTrack(tracks, index)
         IN  /\ tracks' = r.tracks
             /\ last' = CallT("take_track", NoItem, index, r.some, Len(tracks),
                              r.track)
    /\ UNCHANGED <<reader, segment, track, panicked>>

GetTrackCall ==
    /\ ~panicked
    /\ \E index \in 0..MaxTracks :
         LET r == GetTrack(tracks, index)
         IN  last' = CallT("get_track", NoItem, index, r.some, 0, r.track)
    /\ UNCHANGED <<reader, segment, track, tracks, panicked>>

ClearCall ==
    /\ ~panicked
    /\ tracks' = Clear(tracks)
    /\ last' = Call("clear", NoItem, 0, TRUE, 0)
    /\ UNCHANGED <<reader, segment, track, panicked>>

\* timeline.clone(): `last` keeps the tracks of the clone.
CloneCall ==
    /\ ~panicked
    /\ last' = [op |-> "clone", tracks |-> TimelineClone(tracks)]
    /\ UNCHANGED <<reader, segment, track, tracks, panicked>>

\* A Timeline under all of its calls.
TimelineNext ==
    \/ AddItemCall
    \/ CloneCall
    \/ PushTrackCall
    \/ TakeTrackCall
    \/ GetTrackCall
    \/ ClearCall
SpecTimeline == Init /\ [][TimelineNext]_vars

----------------------------------------------------------------------------
(* The tests of TimeRangeSupport. *)

\* end(), contains(time) and overlaps(b) are called on a span a.  They read
\* nothing but their arguments, so the calls made first are all the calls.
SpanTestsCall ==
    /\ ~panicked
    /\ last.op = "new"
    /\ \E a \in Spans, b \in Spans, time \in Times :
         last' = [op |-> "span_tests", a |-> a, b |-> b, time |-> time,
                  end |-> End(a), contains |-> Contains(a, time),
                  overlaps |-> Overlaps(a, b)]
    /\ UNCHANGED <<reader, segment, track, tracks, panicked>>

\* TimeRange::whole_timerange(&ranges): a function of the list it is given.
WholeTimerangeCall ==
    /\ ~panicked
    /\ last.op = "new"
    /\ \E ranges \in ListsOf(Items, MaxRanges) :
         LET r == WholeTimerange(ranges)
         IN  /\ panicked' = r.panic
             /\ last' = [op |-> "whole_timerange", ranges |-> ranges,
                         range |-> r.range]
    /\ UNCHANGED <<reader, segment, track, tracks>>

SpanNext == SpanTestsCall \/ WholeTimerangeCall
SpecSpan == Init /\ [][SpanNext]_vars

----------------------------------------------------------------------------
(* The calls on the caller's Item. *)

\* What `last` records of a call on the Item: its name, the time, the key,
\* the type and the value it was given, the Item as it was before the call,
\* and what the call returned.
ItemCall(op, time, key, type, value, ret) ==
    [op |-> op, time |-> time, key |-> key, type |-> type, value |-> value,
     before |-> segment, ret |-> ret]

SetStartCall ==
    /\ \E start \in Times :
         /\ segment' = SetStart(segment, start)
         /\ last' = ItemCall("set_start", start, "", "", Absent, Absent)
    /\ UNCHANGED <<reader, track, tracks, panicked>>

SetDurationCall ==
    /\ \E duration \in Times :
         /\ segment' = SetDuration(segment, duration)
         /\ last' = ItemCall("set_duration", duration, "", "", Absent, Absent)
    /\ UNCHANGED <<reader, track, tracks, panicked>>

SetEndCall ==
    /\ \E end \in Times :
         /\ segment' = SetEnd(segment, end)
         /\ last' = ItemCall("set_end", end, "", "", Absent, Absent)
    /\ UNCHANGED <<reader, track, tracks, panicked>>

\* The start is kept among the times the other calls set it to.
ShiftTimeCall ==
    /\ \E shift \in Times :
         /\ ShiftTime(segment, shift).start \in Times
         /\ segment' = ShiftTime(segment, shift)
         /\ last' = ItemCall("shift_time", shift, "", "", Absent, Absent)
    /\ UNCHANGED <<reader, track, tracks, panicked>>

EditNext == SetStartCall \/ SetDurationCall \/ SetEndCall \/ ShiftTimeCall
SpecEdit == Init /\ [][EditNext]_vars

GetContentCall ==
    /\ \E type \in Types :
         last' = ItemCall("get_content", 0, "", type, Absent,
                          GetContent(segment, type))
    /\ UNCHANGED <<reader, track, tracks, panicked, segment>>

SetContentCall ==
    /\ \E value \in TypedValues :
         /\ segment' = SetContent(segment, value)
         /\ last' = ItemCall("set_content", 0, "", value.type, value, Absent)
    /\ UNCHANGED <<reader, track, tracks, panicked>>

ClearContentCall ==
    /\ segment' = ClearContent(segment)
    /\ last' = ItemCall("clear_content", 0, "", "", Absent, Absent)
    /\ UNCHANGED <<reader, track, tracks, panicked>>

ContentNext == GetContentCall \/ SetContentCall \/ ClearContentCall
SpecContent == Init /\ [][ContentNext]_vars

GetMetadataCall ==
    /\ \E key \in Keys, type \in Types :
         last' = ItemCall("get_metadata", 0, key, type, Absent,
                          GetMetadata(segment, key, type))
    /\ UNCHANGED <<reader, track, tracks, panicked, segment>>

SetMetadataCall ==
    /\ \E key \in Keys, value \in TypedValues :
         /\ segment' = SetMetadata(segment, key, value)
         /\ last' = ItemCall("set_metadata", 0, key, value.type, value, Absent)
    /\ UNCHANGED <<reader, track, tracks, panicked>>

EraseMetadataCall ==
    /\ \E key \in Keys :
         /\ segment' = EraseMetadata(segment, key)
         /\ last' = ItemCall("erase_metadata", 0, key, "", Absent, Absent)
    /\ UNCHANGED <<reader, track, tracks, panicked>>

ClearMetadataCall ==
    /\ segment' = ClearMetadata(segment)
    /\ last' = ItemCall("clear_metadata", 0, "", "", Absent, Absent)
    /\ UNCHANGED <<reader, track, tracks, panicked>>

MetadataNext ==
    \/ GetMetadataCall
    \/ SetMetadataCall
    \/ EraseMetadataCall
    \/ ClearMetadataCall
SpecMetadata == Init /\ [][MetadataNext]_vars

----------------------------------------------------------------------------
(* The arithmetic and the text of Time. *)

\* time / other: a function of its operands.
TimeDivCall ==
    /\ ~panicked
    /\ last.op = "new"
    /\ \E data \in Times, other \in Divisors :
         last' = [op |-> "div", data |-> data, other |-> other,
                  ok |-> TRUE, time |-> TimeDiv(data, other)]
    /\ UNCHANGED <<reader, segment, track, tracks, panicked>>

\* Time::from_timecode(text, timebase)
FromTimecodeCall ==
    /\ ~panicked
    /\ last.op = "new"
    /\ \E in \in TimecodeInputs : \E r \in TimeFromTimecode(in[1], in[2]) :
         last' = [op |-> "from_timecode", text |-> in[1], tb |-> in[2],
                  ok |-> r.ok, data |-> r.data, out |-> <<>>]
    /\ UNCHANGED <<reader, segment, track, tracks, panicked>>

\* time.to_timecode(timebase) on the Time from_timecode returned, with the
\* same timebase; `text` stays the text that Time was read from.
ToTimecodeCall ==
    /\ ~panicked
    /\ last.op = "from_timecode" /\ last.ok
    /\ \E out \in TimeToTimecode(last.data, last.tb) :
         last' = [last EXCEPT !.op = "to_timecode", !.out = out]
    /\ UNCHANGED <<reader, segment, track, tracks, panicked>>

\* Time::from_timestamp(text)
FromTimestampCall ==
    /\ ~panicked
    /\ last.op = "new"
    /\ \E tc \in TimestampInputs :
         LET r == TimeFromTimestamp(tc)
         IN  last' = [op |-> "from_timestamp", text |-> tc, ok |-> r.ok,
                      data |-> r.data, out |-> <<>>]
    /\ UNCHANGED <<reader, segment, track, tracks, panicked>>

\* time.to_timestamp() on the Time from_timestamp returned.
ToTimestampCall ==
    /\ ~panicked
    /\ last.op = "from_timestamp" /\ last.ok
    /\ last' = [last EXCEPT !.op = "to_timestamp",
                            !.out = TimeToTimestamp(last.data)]
    /\ UNCHANGED <<reader, segment, track, tracks, panicked>>

\* The Times to_timecode is called on, 0 <= t < 24 h: every number of
\* milliseconds past a whole second, in the first and the last second of
\* the day and in two seconds between.
TimecodeTimes ==
    { s * 1000 + ms : s \in {0, 59, 3599, 86399}, ms \in 0..999 }

\* The timebases to_timecode is called with on those Times.
TimecodeTimebases ==
    { Timebase(fps, df) : fps \in {1, 24, 25, 30, 60}, df \in BOOLEAN }

\* time.to_timecode(timebase) on a Time of any number of milliseconds.
ToTimecodeOfCall ==
    /\ ~panicked
    /\ last.op = "new"
    /\ \E data \in TimecodeTimes, tb \in TimecodeTimebases :
         \E out \in TimeToTimecode(data, tb) :
           last' = [op |-> "to_timecode_of", data |-> data, tb |-> tb,
                    out |-> out]
    /\ UNCHANGED <<reader, segment, track, tracks, panicked>>

TimeNext ==
    \/ ToTimecodeOfCall
    \/ TimeDivCall
    \/ FromTimecodeCall
    \/ ToTimecodeCall
    \/ FromTimestampCall
    \/ ToTimestampCall
SpecTime == Init /\ [][TimeNext]_vars

----------------------------------------------------------------------------
(* The same segments offered to a new Track in two orders. *)

\* The most segments offered.
MaxOffer == 3

\* The segments offered: all of positive duration; some touch at a boundary
\* point, some overlap.
OfferItems ==
    {Item(0, 10), Item(10, 10), Item(20, 10), Item(5, 10), Item(30, 10)}

\* The orders segments are offered in: no segment is offered twice.
Orders ==
    { o \in ListsOf(OfferItems, MaxOffer) :
        \A i, j \in 1..Len(o) : o[i] = o[j] => i = j }

\* try_add_item of each segment of `rest` in turn, on the Track r.track that
\* has accepted the segments r.accepted: the Tracks that can result and the
\* segments they accepted.
RECURSIVE OfferFrom(_, _)
OfferFrom(r, rest) ==
    IF rest = <<>> THEN {r}
    ELSE UNION { OfferFrom([track |-> o.track,
                            accepted |-> IF o.ok
                                         THEN r.accepted \cup {Head(rest)}
                                         ELSE r.accepted],
                           Tail(rest))
                 : o \in TryAddItemOutcomes(r.track, Head(rest)) }

\* Two new Tracks are offered the same segments, each in its own order.
OfferOrdersCall ==
    /\ ~panicked
    /\ last.op = "new"
    /\ \E first \in Orders, second \in Orders :
         /\ { first[i] : i \in 1..Len(first) }
              = { second[i] : i \in 1..Len(second) }
         /\ \E r1 \in OfferFrom([track |-> TrackDefault, accepted |-> {}], first),
               r2 \in OfferFrom([track |-> TrackDefault, accepted |-> {}], second) :
              last' = [op |-> "offer_orders", first |-> first,
                       second |-> second,
                       accepted1 |-> r1.accepted, accepted2 |-> r2.accepted,
                       items1 |-> r1.track.items, items2 |-> r2.track.items]
    /\ UNCHANGED <<reader, segment, track, tracks, panicked>>

OrderNext == OfferOrdersCall
SpecOrder == Init /\ [][OrderNext]_vars

\* A Track that try_add_item is called on with items that do not end before
\* they start, and duration() is read of.
CachedNext == TryAddItemCall(ForwardItems) \/ DurationCall
SpecCached == Init /\ [][CachedNext]_vars

----------------------------------------------------------------------------
(* The calls on the SrtReader. *)

\* SrtReader::new(source).  The source is text in memory: read_line returns
\* no error on it.
SrtNewCall ==
    /\ ~panicked
    /\ reader.pc = "none"
    /\ \E source \in SrtSources : reader' = SrtReaderNew(source)
    /\ UNCHANGED <<track, tracks, last, panicked, segment>>

\* reader.next() is called.
SrtNextCall ==
    /\ ~panicked
    /\ reader.pc \in {"idle", "returned"}
    /\ reader' = SrtNextEnter(reader)
    /\ UNCHANGED <<track, tracks, last, panicked, segment>>

\* next() makes one turn of its loop, or returns.
SrtNextLoopStep ==
    /\ ~panicked
    /\ reader.pc = "loop"
    /\ reader' = SrtNextLoop(reader)
    /\ UNCHANGED <<track, tracks, last, panicked, segment>>

SrtNext == SrtNewCall \/ SrtNextCall \/ SrtNextLoopStep
SpecSrt == Init /\ [][SrtNext]_vars

\* A call of next() that has begun goes on: next() is sequential code that
\* waits for nothing but its source.  Whether the caller calls next() is
\* left open.
SpecSrtFair == SpecSrt /\ WF_vars(SrtNextLoopStep)

----------------------------------------------------------------------------
\* The caller's Track and Item, the Timeline, the span tests and the
\* arithmetic and text of Time together.
Next ==
    \/ SafeNext \/ ForceAddNext \/ TrackNext \/ TimelineNext \/ SpanNext
    \/ EditNext \/ ContentNext \/ MetadataNext \/ TimeNext
    \/ OrderNext \/ CachedNext \/ SrtNext
Spec == Init /\ [][Next]_vars

----------------------------------------------------------------------------
(* Properties *)

\* No two items of the sequence overlap.
NoOverlap(s) ==
    \A i, j \in 1..Len(s) : i # j => ~Overlaps(s[i], s[j])

\* The largest end of the items, 0 when there are none.
MaxEnd(s) ==
    IF s = <<>> THEN 0
    ELSE CHOOSE m \in { End(s[i]) : i \in 1..Len(s) } :
            \A i \in 1..Len(s) : End(s[i]) <= m

\* A track that holds these items and has never had its duration() read.
TrackOf(s) == [items |-> s, end_cache |-> None]

\* C1: a Track built from empty by try_add_item alone never holds two items
\* that overlap, and on the track holding (0,10) and (30,10) try_add_item of
\* (35,10) fails and leaves those two items.
C1_NoOverlap ==
    /\ NoOverlap(track.items)
    /\ track.items = <<Item(0, 10), Item(30, 10)>> =>
         \A r \in TryAddItemOutcomes(track, Item(35, 10)) :
            ~r.ok /\ r.track.items = track.items

\* C2: after every try_add_item call on a Track built from empty by
\* try_add_item alone the items are in ascending order of start, and
\* (0,10), (50,100), (20,10) offered in that order are all accepted and end
\* up in the order 0, 20, 50.
C2_SortInvariant ==
    /\ SortedByStart(track.items)
    /\ TryAddItemOutcomes(TrackDefault, Item(0, 10)) =
         { [track |-> TrackOf(<<Item(0, 10)>>), ok |-> TRUE, ret |-> 0] }
    /\ TryAddItemOutcomes(TrackOf(<<Item(0, 10)>>), Item(50, 100)) =
         { [track |-> TrackOf(<<Item(0, 10), Item(50, 100)>>),
            ok |-> TRUE, ret |-> 1] }
    /\ track = TrackOf(<<Item(0, 10), Item(50, 100)>>) =>
         \A r \in TryAddItemOutcomes(track, Item(20, 10)) :
            r.ok /\ r.track.items = <<Item(0, 10), Item(20, 10), Item(50, 100)>>

\* C2's case: (20,10) has been accepted between (0,10) and (50,100).
C2_Witness ==
    /\ last = Call("try_add_item", Item(20, 10), 0, TRUE, 1)
    /\ track.items = <<Item(0, 10), Item(20, 10), Item(50, 100)>>

\* try_add_item can reject the item on this track.
CanReject(t, item) == \E r \in TryAddItemOutcomes(t, item) : ~r.ok

\* C3: add_item(S) puts S into the first track whose try_add_item accepts it
\* and leaves the other tracks alone; when every track rejects S it appends
\* one new track that holds S alone.
C3_FirstFit ==
    [][last'.op = "add_item" =>
        LET S == last'.item
            n == Len(tracks)
        IN  \/ \E i \in 1..n :
                 /\ \A j \in 1..(i - 1) : CanReject(tracks[j], S)
                 /\ \E r \in TryAddItemOutcomes(tracks[i], S) :
                       r.ok /\ tracks' = [tracks EXCEPT ![i] = r.track]
            \/ /\ \A j \in 1..n : CanReject(tracks[j], S)
               /\ tracks' = Append(tracks, TrackOf(<<S>>))
    ]_vars

\* C3's case: with (35,10) in track 0, add_item((35,10)) has been rejected
\* by track 0 and taken by track 1, which held (30,10).
C3_Witness ==
    /\ last.op = "add_item" /\ last.item = Item(35, 10)
    /\ Len(tracks) = 2
    /\ tracks[1].items = <<Item(35, 10)>>
    /\ tracks[2].items = <<Item(30, 10), Item(35, 10)>>

\* C4: on the Timeline that add_item((0,10)) leaves from default(),
\* add_item((5,10)) makes a second track: track 0 holds (0,10) alone and
\* track 1 holds (5,10) alone.
C4_OverlapRouting ==
    [][(tracks = <<TrackOf(<<Item(0, 10)>>)>> /\ last'.op = "add_item"
            /\ last'.item = Item(5, 10)) =>
        /\ Len(tracks') = 2
        /\ tracks'[1].items = <<Item(0, 10)>>
        /\ tracks'[2].items = <<Item(5, 10)>>
    ]_vars

\* C5: the Timeline always holds at least one track.
C5_NonEmptyTimeline == TracksCount(tracks) >= 1

\* C5's case: the only track, one with items, has been taken and an empty
\* one stands in its place.
C5_Witness ==
    /\ last.op = "take_track" /\ last.ok /\ last.ret = 1
    /\ last.track.items # <<>>
    /\ tracks = <<TrackDefault>>

\* C6: the end-cache, when known, is the largest end of the items, and
\* duration() returns the largest end of the items (0 for none).
C6_EndCacheCorrect ==
    /\ track.end_cache.some => track.end_cache.val = MaxEnd(track.items)
    /\ last.op = "duration" => last.ret = MaxEnd(track.items)

\* C7: a try_add_item that returns Err returns the index find_insert_point
\* gave, which check_insert_point rejects, and changes neither the items nor
\* the end-cache.
C7_FailureAtomic ==
    [][(last'.op = "try_add_item" /\ ~last'.ok) =>
        /\ track' = track
        /\ last'.ret \in FindInsertPoint(track, last'.item)
        /\ ~CheckInsertPoint(track, last'.ret, last'.item)
    ]_vars

\* C7's case: try_add_item has returned Err on a track whose end-cache is
\* known.
C7_Witness ==
    /\ last.op = "try_add_item" /\ ~last.ok
    /\ track.end_cache.some
    /\ Len(track.items) >= 2

\* C8: push_track(t) on a Timeline whose only track is empty leaves t as the
\* only track; on any other Timeline it appends t.
C8_PushDiscardsSentinel ==
    [][last'.op = "push_track" =>
        IF Len(tracks) = 1 /\ tracks[1].items = <<>>
        THEN tracks' = <<last'.track>>
        ELSE tracks' = Append(tracks, last'.track)
    ]_vars

\* C9: take_at(index) with index < len returns the item at index, keeps the
\* other items in order and leaves the end-cache unknown.
C9_TakeInvalidates ==
    [][(last'.op = "take_at" /\ last'.index < Len(track.items)) =>
        /\ last'.item = track.items[last'.index + 1]
        /\ track'.items = VecRemove(track.items, last'.index)
        /\ ~track'.end_cache.some
    ]_vars

\* C10: take_at(index) with index >= len does not panic, returns an error
\* and leaves the items as they were (last.ret is the length before the
\* call); get(index) with index >= len returns None.
C10_BoundsErrorsReturned ==
    /\ (last.op = "take_at" /\ last.index >= last.ret) =>
         ~panicked /\ ~last.ok /\ Len(track.items) = last.ret
    /\ (last.op = "get" /\ last.index >= last.ret) => ~last.ok

\* The smaller of two numbers.
Min(a, b) == IF a <= b THEN a ELSE b

\* The sequence s without its element at the 0-based position k.
Without(s, k) ==
    [i \in 1..(Len(s) - 1) |-> IF i <= k THEN s[i] ELSE s[i + 1]]

\* The sequence s with x put in at the 0-based position k.
WithAt(s, k, x) ==
    [i \in 1..(Len(s) + 1) |->
        IF i <= k THEN s[i] ELSE IF i = k + 1 THEN x ELSE s[i - 1]]

\* C11: take_track(index) with index < tracks_count() returns the track that
\* was at index, unchanged, and leaves the other tracks in their order; when
\* it was the only track the Timeline is left with one empty track.
C11_TakeTrack ==
    [][(last'.op = "take_track" /\ last'.index < Len(tracks)) =>
        /\ last'.ok
        /\ last'.track = tracks[last'.index + 1]
        /\ IF Len(tracks) = 1
           THEN Len(tracks') = 1 /\ tracks'[1].items = <<>>
           ELSE tracks' = Without(tracks, last'.index)
    ]_vars

\* C11's case: of three tracks the first, which holds items, has been taken.
C11_Witness ==
    /\ last.op = "take_track" /\ last.ok /\ last.ret = 3 /\ last.index = 0
    /\ last.track.items # <<>>
    /\ Len(tracks) = 2
    /\ tracks[1] # tracks[2]

\* C12: force_insert_item(index, item) puts the item at min(index, len),
\* with the items behind it moved right, and does not panic; it returns
\* Ok(index) when index <= len and Err(len) when index > len.
C12_ForceInsertClamps ==
    [][last'.op = "force_insert_item" =>
        LET len == Len(track.items)
            index == last'.index
        IN  /\ track'.items = WithAt(track.items, Min(index, len), last'.item)
            /\ ~panicked'
            /\ index <= len => last'.ok /\ last'.ret = index
            /\ index > len => ~last'.ok /\ last'.ret = len
    ]_vars

\* C12's case: an index past the end has been clamped to the end of a
\* track that held two items.
C12_Witness ==
    /\ last.op = "force_insert_item"
    /\ ~last.ok /\ last.index = 3 /\ last.ret = 2
    /\ Len(track.items) = 3
    /\ track.items[3] = last.item

\* C13: on a Track that only force_add_item and duration() are called on,
\* force_add_item puts the item at the index find_insert_point gives,
\* returns that index, and leaves the items in ascending order of start.
C13_ForceAddKeepsOrder ==
    [][(last'.op = "force_add_item" /\ SortedByStart(track.items)) =>
        /\ last'.ret \in FindInsertPoint(track, last'.item)
        /\ track'.items = WithAt(track.items, last'.ret, last'.item)
        /\ SortedByStart(track'.items)
    ]_vars

\* post is pre in another order, in which items of equal start keep the
\* order they had in pre.
StablePermutation(pre, post) ==
    /\ Len(post) = Len(pre)
    /\ \E p \in [1..Len(pre) -> 1..Len(pre)] :
         /\ \A i, j \in 1..Len(pre) : i # j => p[i] # p[j]
         /\ \A i \in 1..Len(pre) : post[i] = pre[p[i]]
         /\ \A i, j \in 1..Len(pre) :
               (i < j /\ post[i].start = post[j].start) => p[i] < p[j]

\* C14: after force_sort_items the items are in ascending order of start
\* and are the items from before the call (last.track), each once, those of
\* equal start in the order they had.
C14_StableSort ==
    last.op = "force_sort_items" =>
        /\ SortedByStart(track.items)
        /\ StablePermutation(last.track.items, track.items)

\* C14's case: (20,10), (0,100), (0,10) have been sorted; the two items that
\* start at 0 have kept their order.
C14_Witness ==
    /\ last.op = "force_sort_items"
    /\ last.track.items = <<Item(20, 10), Item(0, 100), Item(0, 10)>>
    /\ track.items = <<Item(0, 100), Item(0, 10), Item(20, 10)>>

\* C15: the duration() read after force_sort_items is the largest end of
\* the items (0 for none).
C15_SortRepairsExtent ==
    last.op = "force_sort_items" =>
        Duration(track).ret = MaxEnd(track.items)

\* check_insert_point as the reference states it, on the items s.
CheckReference(s, index, c) ==
    IF index >= Len(s) THEN TRUE
    ELSE IF index = 0 THEN c.start + c.duration <= s[1].start
    ELSE ~\E k \in {index - 1, index, index + 1} :
            /\ k < Len(s)
            /\ c.start <= s[k + 1].start + s[k + 1].duration
            /\ c.start + c.duration >= s[k + 1].start

C17_SortedInsertionIndex ==
    \A c \in Items :
        /\ track.items = <<>> => FindInsertPoint(track, c) = {0}
        /\ (track.items # <<>> /\ SortedByStart(track.items)) =>
             \A i \in FindInsertPoint(track, c) :
                /\ i \in 0..Len(track.items)
                /\ \A j \in 1..i : track.items[j].start <= c.start
                /\ \A j \in (i + 1)..Len(track.items) :
                      track.items[j].start >= c.start
                /\ (\E j \in 1..Len(track.items) : track.items[j].start = c.start)
                      => (i < Len(track.items) /\ track.items[i + 1].start = c.start)

\* The larger of two numbers.
Max(a, b) == IF a >= b THEN a ELSE b

\* C18: try_add_item returns Ok(idx) exactly when check_insert_point accepts
\* idx = find_insert_point(c); it then has put c at idx among the other
\* items, which keep their order, and the end-cache is max(cached, c.end)
\* when it was known and unknown when it was unknown.
C18_TryAddSuccess ==
    [][last'.op = "try_add_item" =>
        LET c == last'.item
            idx == last'.ret
        IN  /\ idx \in FindInsertPoint(track, c)
            /\ last'.ok = CheckInsertPoint(track, idx, c)
            /\ last'.ok =>
                 /\ Len(track'.items) = Len(track.items) + 1
                 /\ track'.items = WithAt(track.items, idx, c)
                 /\ track'.end_cache =
                      IF track.end_cache.some
                      THEN Some(Max(track.end_cache.val, c.start + c.duration))
                      ELSE None
    ]_vars

\* C18's case: try_add_item has put an item before the others, and the
\* end-cache, known, has stayed above the item's end.
C18_Witness ==
    /\ last.op = "try_add_item" /\ last.ok /\ last.ret = 0
    /\ Len(track.items) >= 2
    /\ track.end_cache.some
    /\ track.end_cache.val > End(last.item)

\* C19: force_push_item(item) leaves the items as they were with the item
\* behind them, and the duration() read after it is the largest end of the
\* items.
C19_ForcePushAppends ==
    [][last'.op = "force_push_item" =>
        /\ track'.items = Append(track.items, last'.item)
        /\ Duration(track').ret = MaxEnd(track'.items)
    ]_vars

\* C20 as stated: end is start + duration, contains(t) is start <= t <= end,
\* overlaps(b) is start <= b.end and end >= b.start, and every two spans of
\* which one ends where the other starts overlap.
C20_TouchingSpansOverlap ==
    last.op = "span_tests" =>
        /\ last.end = last.a.start + last.a.duration
        /\ last.contains = (/\ last.a.start <= last.time
                            /\ last.time <= last.a.start + last.a.duration)
        /\ last.overlaps = (/\ last.a.start <= last.b.start + last.b.duration
                            /\ last.a.start + last.a.duration >= last.b.start)
        /\ (last.a.start + last.a.duration = last.b.start) => last.overlaps

\* C20, amended: end is start + duration, contains(t) is start <= t <= end,
\* overlaps(b) is start <= b.end and end >= b.start, and two spans, neither
\* ending before it starts, of which one ends where the other starts overlap.
C20_InclusiveSpanTests ==
    last.op = "span_tests" =>
        LET a == last.a
            b == last.b
            t == last.time
        IN  /\ last.end = a.start + a.duration
            /\ last.contains = (a.start <= t /\ t <= a.start + a.duration)
            /\ last.overlaps = (/\ a.start <= b.start + b.duration
                                /\ a.start + a.duration >= b.start)
            /\ (/\ a.duration >= 0 /\ b.duration >= 0
                /\ a.start + a.duration = b.start) => last.overlaps

\* C20's case: a span that ends where another starts, both of positive
\* duration, has been reported to overlap it, and its end to be contained.
C20_Witness ==
    /\ last.op = "span_tests"
    /\ last.a.duration > 0 /\ last.b.duration > 0
    /\ last.a.start + last.a.duration = last.b.start
    /\ last.overlaps
    /\ last.time = last.end /\ last.contains

\* The fields of the caller's Item that the time range calls leave alone.
Payload(it) == <<it.metadata, it.content>>

\* C21: set_end(e) leaves start and sets duration to e - start, so end() is
\* e; shift_time(d) adds d to start and leaves duration, so end() moves by
\* d; set_start and set_duration change only their own field.
C21_SpanEditing ==
    [][/\ last'.op = "set_end" =>
            /\ segment'.start = segment.start
            /\ segment'.duration = last'.time - segment.start
            /\ segment'.start + segment'.duration = last'.time
            /\ Payload(segment') = Payload(segment)
       /\ last'.op = "shift_time" =>
            /\ segment'.start = segment.start + last'.time
            /\ segment'.duration = segment.duration
            /\ segment'.start + segment'.duration
                 = segment.start + segment.duration + last'.time
            /\ Payload(segment') = Payload(segment)
       /\ last'.op = "set_start" =>
            segment' = [segment EXCEPT !.start = last'.time]
       /\ last'.op = "set_duration" =>
            segment' = [segment EXCEPT !.duration = last'.time]
    ]_vars

\* C21's case: set_end(-1) on the span (1, 1) has left the start at 1 and
\* made the duration -2.
C21_Witness ==
    /\ last.op = "set_end" /\ last.time = -1
    /\ last.before.start = 1 /\ last.before.duration = 1
    /\ segment.start = 1 /\ segment.duration = -2

\* C22: a fresh item has no content; set_content(v) makes v, with its type,
\* the whole content; clear_content leaves none; get_content::<T>() returns
\* the content when there is one and its type is T, absent otherwise, and
\* changes nothing.
C22_ContentTypedRead ==
    /\ ~segment.content.some
    /\ [][/\ last'.op = "set_content" =>
               /\ segment' = [segment EXCEPT !.content = last'.value]
               /\ \A t \in Types :
                    GetContent(segment', t) =
                        IF t = last'.value.type THEN last'.value ELSE Absent
          /\ last'.op = "clear_content" =>
               /\ segment' = [segment EXCEPT !.content = Absent]
               /\ \A t \in Types : GetContent(segment', t) = Absent
          /\ last'.op = "get_content" =>
               /\ segment' = segment
               /\ last'.ret =
                    IF segment.content.some /\ segment.content.type = last'.type
                    THEN segment.content
                    ELSE Absent
       ]_vars

\* C22's case: a String content has been read as i32 and nothing returned.
C22_Witness ==
    /\ last.op = "get_content" /\ last.type = "i32"
    /\ segment.content.some /\ segment.content.type = "String"
    /\ ~last.ret.some

\* C23: set(k, v) makes v, with its type, the value of k and erase(k) makes
\* k missing, both leaving every other key's value; clear leaves no key;
\* get::<T>(k) returns the value of k when k is present and the value's type
\* is T, absent otherwise, and changes nothing.
C23_MetadataStore ==
    /\ \A k \in Keys : ~segment.metadata[k].some
    /\ [][/\ last'.op = "set_metadata" =>
               segment' = [segment EXCEPT !.metadata[last'.key] = last'.value]
          /\ last'.op = "erase_metadata" =>
               segment' = [segment EXCEPT !.metadata[last'.key] = Absent]
          /\ last'.op = "clear_metadata" =>
               /\ \A k \in Keys : ~segment'.metadata[k].some
               /\ segment'.content = segment.content
          /\ last'.op = "get_metadata" =>
               /\ segment' = segment
               /\ last'.ret =
                    IF /\ segment.metadata[last'.key].some
                       /\ segment.metadata[last'.key].type = last'.type
                    THEN segment.metadata[last'.key]
                    ELSE Absent
       ]_vars

\* C23's case: a key that held a value has had another value set and then
\* been erased, and the other key still holds its value.
C23_Witness ==
    /\ last.op = "erase_metadata" /\ last.key = "number1"
    /\ last.before.metadata["number1"] = Typed("String", 2)
    /\ ~segment.metadata["number1"].some
    /\ segment.metadata["note"] = Typed("i32", 1)

\* C24: dividing a Time by zero returns an error to the caller and no Time.
C24_DivisionByZeroFails ==
    (last.op = "div" /\ last.other.mag = 0) => ~last.ok

\* C28: take_track(index) and get_track(index) with index >= tracks_count()
\* return None, do not panic and leave the track list as it was.
C28_TimelineBoundsAbsent ==
    [][(/\ last'.op \in {"take_track", "get_track"}
        /\ last'.index >= Len(tracks)) =>
            /\ ~last'.ok
            /\ ~panicked'
            /\ tracks' = tracks
    ]_vars

\* C28's case: take_track(2) on a timeline of two tracks, the first of them
\* holding an item, has returned None.
C28_Witness ==
    /\ last.op = "take_track" /\ last.index = 2 /\ ~last.ok
    /\ Len(tracks) = 2 /\ tracks[1].items # <<>>

\* C29: whole_timerange of a non-empty list starts at the least start and
\* ends at the greatest end of the ranges, so every range lies within it.
C29_WholeTimerange ==
    (last.op = "whole_timerange" /\ last.ranges # <<>>) =>
        LET rs == last.ranges
            w == last.range
        IN  /\ ~panicked
            /\ \E i \in 1..Len(rs) : w.start = rs[i].start
            /\ \E i \in 1..Len(rs) :
                 w.start + w.duration = rs[i].start + rs[i].duration
            /\ \A i \in 1..Len(rs) :
                 /\ w.start <= rs[i].start
                 /\ rs[i].start + rs[i].duration <= w.start + w.duration

\* C29's case: of three ranges the second starts first and the first ends
\* last.
C29_Witness ==
    /\ last.op = "whole_timerange"
    /\ last.ranges = <<Item(5, 10), Item(0, 10), Item(10, 0)>>
    /\ last.range = Item(0, 15)

\* The items are sorted by start, no two overlap, none ends before it
\* starts, and c, which does not end before it starts, overlaps none.
Fits(s, c) ==
    /\ SortedByStart(s)
    /\ \A i \in 1..Len(s) : s[i].duration >= 0
    /\ \A i, j \in 1..Len(s) :
         i # j => ~(/\ s[i].start <= s[j].start + s[j].duration
                    /\ s[i].start + s[i].duration >= s[j].start)
    /\ c.duration >= 0
    /\ \A i \in 1..Len(s) :
         ~(/\ c.start <= s[i].start + s[i].duration
           /\ c.start + c.duration >= s[i].start)

\* C30: on a track whose items are sorted, do not overlap and do not end
\* before they start, try_add_item of a candidate that does not end before
\* it starts and overlaps none of them returns Ok, whatever the end-cache.
C30_NeverRejectsFit ==
    \A c \in TrackItems :
        Fits(track.items, c) =>
            \A ip \in FindInsertPoint(track, c) : TryAddItem(track, c, ip).ok

\* C30's case: with the end-cache known to be 150, try_add_item has put
\* (30,10) between (0,10) and (50,100).
C30_Witness ==
    /\ last.op = "try_add_item" /\ last.ok /\ last.ret = 1
    /\ last.item = Item(30, 10)
    /\ track.items = <<Item(0, 10), Item(30, 10), Item(50, 100)>>
    /\ track.end_cache = Some(150)

\* A text is exactly hh:mm:ss:ff or hh:mm:ss;ff, two digits a field.
IsTimecodeForm(tc) ==
    /\ Len(tc) = 11
    /\ \A i \in {1, 2, 4, 5, 7, 8, 10, 11} : tc[i] \in AsciiDigits
    /\ tc[3] = ":" /\ tc[6] = ":" /\ tc[9] \in {":", ";"}

\* A text is exactly hh:mm:ss.mmm.
IsTimestampForm(tc) ==
    /\ Len(tc) = 12
    /\ \A i \in {1, 2, 4, 5, 7, 8, 10, 11, 12} : tc[i] \in AsciiDigits
    /\ tc[3] = ":" /\ tc[6] = ":" /\ tc[9] = "."

\* C25: from_timecode returns the format error for every text that is not
\* exactly a timecode, and from_timestamp for every text that is not
\* exactly a timestamp.
C25_MalformedTextRejected ==
    /\ (last.op = "from_timecode" /\ ~IsTimecodeForm(last.text)) => ~last.ok
    /\ (last.op = "from_timestamp" /\ ~IsTimestampForm(last.text)) => ~last.ok

\* C26: to_timestamp of the Time from_timestamp read from a text with
\* hh < 24, mm < 60, ss < 60 is that text.
C26_TimestampRoundTrip ==
    last.op = "to_timestamp" =>
        LET parts == PartsFromTimestamp(last.text)
        IN  (parts.hh < 24 /\ parts.mm < 60 /\ parts.ss < 60) =>
                last.out = last.text

\* C27: to_timecode, with the same timebase, of the Time from_timecode read
\* from a timecode hh:mm:ss:ff with hh < 24, mm < 60, ss < 60, ff < fps and
\* the separator of the timebase is that timecode.
C27_TimecodeRoundTrip ==
    last.op = "to_timecode" =>
        LET tc == last.text
            parts == PartsFromTimecode(tc)
        IN  (/\ IsTimecodeForm(tc)
             /\ parts.hh < 24 /\ parts.mm < 60 /\ parts.ss < 60
             /\ parts.ff < last.tb.fps
             /\ parts.drop_frame = last.tb.drop_frame) =>
                last.out = tc

\* C27's case: 23:59:59;29 has been read and written in the drop-frame
\* timebase of 30 fps, through a number of milliseconds that is not whole
\* in frames.
C27_Witness ==
    /\ last.op = "to_timecode"
    /\ last.tb = Timebase(30, TRUE)
    /\ last.text = TimecodeText(23, 59, 59, ";", 29)
    /\ last.data = 86399967
    /\ last.out = last.text

\* C31: whatever two orders the same segments of positive duration are
\* offered in to try_add_item on a new Track, the same segments are accepted
\* and the two Tracks end with the same item sequence.
C31_OrderIndependence ==
    last.op = "offer_orders" =>
        /\ last.accepted1 = last.accepted2
        /\ last.items1 = last.items2

\* What try_add_item of c returns on the Track t and the items it leaves,
\* for every index find_insert_point can return.
AddResults(t, c) ==
    { [ok |-> r.ok, ret |-> r.ret, items |-> r.track.items]
      : r \in TryAddItemOutcomes(t, c) }

\* C32: on a Track built by try_add_item of items of non-negative duration,
\* with duration() read at any points in between, find_insert_point(c)
\* returns with the end-cache as it is what it returns with the end-cache
\* unknown, and so does try_add_item(c), which leaves the same items.
C32_FastPathTransparent ==
    \A c \in ForwardItems :
        /\ FindInsertPoint(track, c) = FindInsertPoint(TrackOf(track.items), c)
        /\ AddResults(track, c) = AddResults(TrackOf(track.items), c)

\* An item was appended through the fast path: the end-cache was known
\* before the call, and is the end of the item that came last.
C32_Witness ==
    /\ last.op = "try_add_item" /\ last.ok
    /\ Len(track.items) = 3
    /\ last.ret = 2
    /\ track.end_cache = Some(End(track.items[3]))

\* The items of every track of the Timeline, in the order of the tracks.
ItemsOf(ts) == [i \in 1..Len(ts) |-> ts[i].items]

\* C33: every add_item(S) adds exactly one to the number of items of all
\* tracks, changes the items of exactly one track, by putting S once into
\* an existing track or by appending a new track that holds S alone, leaves
\* the items of every other track and the order of the tracks as they were,
\* and adds at most one to tracks_count().
C33_AddItemFrame ==
    [][last'.op = "add_item" =>
        LET S == last'.item
            n == Len(tracks)
        IN  /\ ItemsCount(tracks') = ItemsCount(tracks) + 1
            /\ TracksCount(tracks') \in {TracksCount(tracks),
                                         TracksCount(tracks) + 1}
            /\ \E i \in 1..Len(tracks') :
                 /\ \A j \in 1..n : j # i => tracks'[j].items = tracks[j].items
                 /\ \A j \in 1..Len(tracks') : j > n => j = i
                 /\ IF i <= n
                    THEN \E k \in 0..Len(tracks[i].items) :
                            tracks'[i].items = VecInsert(tracks[i].items, k, S)
                    ELSE tracks'[i].items = <<S>>
    ]_vars

\* add_item has put its item into the first of two tracks that hold items.
C33_Witness ==
    /\ last.op = "add_item"
    /\ Len(tracks) = 2
    /\ Len(tracks[1].items) = 2
    /\ Len(tracks[2].items) = 1
    /\ \E k \in 1..2 : tracks[1].items[k] = last.item
    /\ tracks[2].items[1] # last.item

\* C34: the clone of a Timeline has the tracks_count() of the Timeline, and
\* its track i holds the item sequence of track i of the Timeline.
C34_ClonePreservesLayout ==
    last.op = "clone" =>
        /\ TracksCount(last.tracks) = TracksCount(tracks)
        /\ \A i \in 1..Len(tracks) :
             i <= Len(last.tracks) /\ last.tracks[i].items = tracks[i].items

\* One of the spans contains the start or the end of the other.
ContainsAnEnd(a, b) ==
    \/ Contains(a, b.start) \/ Contains(a, End(b))
    \/ Contains(b, a.start) \/ Contains(b, End(a))

\* C35 as stated: for all spans a and b, of any sign of duration,
\* a.overlaps(b) = b.overlaps(a), and a.overlaps(b) is true iff one of the
\* spans contains the start or the end of the other.
C35_OverlapsIsContainsBased ==
    last.op = "span_tests" =>
        /\ Overlaps(last.a, last.b) = Overlaps(last.b, last.a)
        /\ Overlaps(last.a, last.b) <=> ContainsAnEnd(last.a, last.b)

\* C35, amended: for all spans a and b, a.overlaps(b) = b.overlaps(a), and
\* where a.overlaps(b) is true one of the spans contains the start or the
\* end of the other; where neither duration is negative the converse holds
\* too.
C35_OverlapsSymmetric ==
    last.op = "span_tests" =>
        /\ last.overlaps = Overlaps(last.a, last.b)
        /\ Overlaps(last.a, last.b) = Overlaps(last.b, last.a)
        /\ Overlaps(last.a, last.b) => ContainsAnEnd(last.a, last.b)
        /\ (last.a.duration >= 0 /\ last.b.duration >= 0) =>
              (ContainsAnEnd(last.a, last.b) => Overlaps(last.a, last.b))

\* overlaps was called on a span of negative duration and one of positive
\* duration, and returned true.
C35_Witness ==
    /\ last.op = "span_tests"
    /\ last.a.duration < 0 /\ last.b.duration > 0
    /\ last.overlaps

\* The number in the frame field of a timecode text: what follows
\* "hh:mm:ss" and the separator.
FrameField(tc) == DigitsValue(SubSeq(tc, 10, Len(tc)))

\* C36: for every Time t with 0 <= t < 24 h and every timebase of fps >= 1,
\* the frame field of to_timecode(t, timebase) is less than the fps of the
\* timebase.
C36_FrameFieldBelowFps ==
    last.op = "to_timecode_of" => FrameField(last.out) < last.tb.fps

\* C37: when next() is first called on an SrtReader whose input is one or
\* more well-formed SRT blocks, it eventually returns Some subtitle, having
\* reached its Done parse state.
C37_YieldsFirstSubtitle ==
    (/\ reader.pc = "loop"
     /\ reader.source \in WellFormedSources
     /\ reader.pos = 0)
      ~> (reader.pc = "returned" /\ reader.ret.some /\ reader.state = "Done")

====
